---- MODULE Spec2Model ----
(***************************************************************************)
(* Model of compare_methods.py: the three method generators, the Monte     *)
(* Carlo loop of run_simulation, analyze_results and the relative deltas   *)
(* of print_comparison_table.                                              *)
(*                                                                         *)
(* Floats are fixed-point integers: a fraction x in [0,1] is the integer   *)
(* x * ONE.  A score on the 0-100 scale (overall_quality, percentages) is  *)
(* the integer points * ONE.  Every product the generators form on the     *)
(* sampled values is exact at this scale.                                  *)
(***************************************************************************)
EXTENDS Integers, Sequences, FiniteSets

\* Fixed-point unit of the float fields: 1.0 is ONE.
ONE == 100000

\* Largest iteration count explored (and longest caller-supplied sequence).
MaxIter == 2

TRADITIONAL == "Traditional (Ad-hoc)"
STRUCTURED == "Structured (Checklist)"
METASPRINT == "META-SPRINT (Gates+Audits)"

Method == {TRADITIONAL, STRUCTURED, METASPRINT}

Min(a, b) == IF a < b THEN a ELSE b

Max(a, b) == IF a > b THEN a ELSE b

\* a * b for two fixed-point fractions.
Mul(a, b) == (a * b) \div ONE

(***************************************************************************)
(* The random source.  random.uniform(a, b) returns a value of [a, b],     *)
(* random.randint(a, b) an integer of a..b, random.random() a value of     *)
(* [0, 1): each is sampled at the two ends of its range.                   *)
(***************************************************************************)
Uniform(a, b) == {a, b}

RandInt(a, b) == {a, b}

Random == {0, ONE - 1}

\* QualityMetrics(): the dataclass defaults.
QualityMetrics ==
    [protocol_adherence |-> 0, data_accuracy |-> 0, reproducibility |-> 0,
     audit_readiness |-> 0, error_rate |-> 0, time_days |-> 0,
     grade_completed |-> FALSE, deviations_logged |-> FALSE]

\* QualityMetrics.overall_quality with the final cap left out.
overall_quality_uncapped(m) ==
    LET score == m.protocol_adherence * 20
               + m.data_accuracy * 25
               + m.reproducibility * 20
               + m.audit_readiness * 15
               + (ONE - m.error_rate) * 20
        grade == IF m.grade_completed THEN 5 * ONE ELSE 0
        devs == IF m.deviations_logged THEN 5 * ONE ELSE 0
    IN  score + grade + devs

\* QualityMetrics.overall_quality: weights in hundredths, so the weighted sum
\* of fractions is already the score * 100; each bonus of 0.05 is 5 points.
overall_quality(m) ==
    LET score == m.protocol_adherence * 20
               + m.data_accuracy * 25
               + m.reproducibility * 20
               + m.audit_readiness * 15
               + (ONE - m.error_rate) * 20
        grade == IF m.grade_completed THEN 5 * ONE ELSE 0
        devs == IF m.deviations_logged THEN 5 * ONE ELSE 0
    IN  Min(score + grade + devs, 100 * ONE)

\* The draws of one call of simulate_traditional, in the order of the code.
TraditionalDraws ==
    [protocol_drift : Uniform(30000, 50000),
     protocol_adherence : Uniform(50000, 80000),
     data_accuracy : Uniform(70000, 90000),
     reproducibility : Uniform(30000, 60000),
     audit_readiness : Uniform(20000, 50000),
     error_rate : Uniform(10000, 30000),
     time_days : RandInt(90, 365),
     grade : Random,
     deviations : Random]

simulate_traditional(d) ==
    [protocol_adherence |-> d.protocol_adherence - (d.protocol_drift * 3) \div 10,
     data_accuracy |-> d.data_accuracy,
     reproducibility |-> d.reproducibility,
     audit_readiness |-> d.audit_readiness,
     error_rate |-> d.error_rate,
     time_days |-> d.time_days,
     grade_completed |-> d.grade < 40000,
     deviations_logged |-> d.deviations < 30000]

\* The draws of one call of simulate_structured.
StructuredDraws ==
    [protocol_adherence : Uniform(65000, 85000),
     data_accuracy : Uniform(75000, 92000),
     reproducibility : Uniform(50000, 75000),
     audit_readiness : Uniform(50000, 70000),
     error_rate : Uniform(5000, 20000),
     time_days : RandInt(60, 180),
     grade : Random,
     deviations : Random]

simulate_structured(d) ==
    [protocol_adherence |-> d.protocol_adherence,
     data_accuracy |-> d.data_accuracy,
     reproducibility |-> d.reproducibility,
     audit_readiness |-> d.audit_readiness,
     error_rate |-> d.error_rate,
     time_days |-> d.time_days,
     grade_completed |-> d.grade < 60000,
     deviations_logged |-> d.deviations < 50000]

\* The draws of one call of simulate_metasprint.
MetasprintDraws ==
    [dod_a : Random, dod_b : Random, dod_c : Random, dod_d : Random,
     audit1_errors_caught : Uniform(60000, 90000),
     audit2_errors_caught : Uniform(70000, 95000),
     redteam_improvement : Uniform(5000, 15000),
     protocol_adherence : Uniform(85000, 98000),
     base_accuracy : Uniform(85000, 95000),
     reproducibility : Uniform(85000, 98000),
     audit_readiness : Uniform(90000, 99000),
     initial_errors : Uniform(15000, 25000),
     condgo : Random]

\* A failed gate's penalty typed as an assignment: value = 0.1.
gate_penalty_assigned(value, pass) == IF ~pass THEN 10000 ELSE value

\* if not dod_x_pass: value -= 0.1
gate_penalty(value, pass) == IF ~pass THEN value - 10000 ELSE value

\* The two catch fractions subtracted together from 1 instead of applied in turn.
error_rate_after_audits_additive(initial_errors, audit1_errors_caught, audit2_errors_caught) ==
    Max(Mul(initial_errors, ONE - audit1_errors_caught - audit2_errors_caught), 1000)

\* initial_errors through audit 1, then audit 2, then the floor of 0.01.
error_rate_after_audits(initial_errors, audit1_errors_caught, audit2_errors_caught) ==
    LET errors_after_audit1 == Mul(initial_errors, ONE - audit1_errors_caught)
        errors_after_audit2 == Mul(errors_after_audit1, ONE - audit2_errors_caught)
    IN  Max(errors_after_audit2, 1000)

\* The CondGO extension added to the timeline instead of replacing it.
timeline_extended_by(condgo_triggered) == IF condgo_triggered THEN 40 + 45 ELSE 40

\* metrics.time_days = 45 if condgo_triggered else 40
timeline(condgo_triggered) == IF condgo_triggered THEN 45 ELSE 40

simulate_metasprint(d) ==
    LET dod_a_pass == d.dod_a < 95000
        dod_b_pass == d.dod_b < 92000
        dod_c_pass == d.dod_c < 90000
        dod_d_pass == d.dod_d < 88000
        condgo_triggered == d.condgo < 15000
    IN  [protocol_adherence |-> gate_penalty(d.protocol_adherence, dod_a_pass),
         data_accuracy |-> Min(d.base_accuracy + d.redteam_improvement, 99000),
         reproducibility |-> gate_penalty(d.reproducibility, dod_d_pass),
         audit_readiness |-> d.audit_readiness,
         error_rate |-> error_rate_after_audits(d.initial_errors,
                                                d.audit1_errors_caught,
                                                d.audit2_errors_caught),
         time_days |-> timeline(condgo_triggered),
         grade_completed |-> TRUE,
         deviations_logged |-> TRUE]

(***************************************************************************)
(* The draws the random source hands out inside run_simulation's loop:     *)
(* for each generator its range's lowest and highest corner and the draws  *)
(* that give the lowest and the highest overall_quality.                   *)
(***************************************************************************)
Lowest(S) == CHOOSE d \in S : \A e \in S : \A f \in DOMAIN d : d[f] <= e[f]

Highest(S) == CHOOSE d \in S : \A e \in S : \A f \in DOMAIN d : d[f] >= e[f]

SetMin(S) == CHOOSE x \in S : \A y \in S : x <= y

SetMax(S) == CHOOSE x \in S : \A y \in S : x >= y

TraditionalQualities ==
    {overall_quality(simulate_traditional(d)) : d \in TraditionalDraws}

StructuredQualities ==
    {overall_quality(simulate_structured(d)) : d \in StructuredDraws}

MetasprintQualities ==
    {overall_quality(simulate_metasprint(d)) : d \in MetasprintDraws}

TraditionalSamples ==
    {Lowest(TraditionalDraws), Highest(TraditionalDraws),
     CHOOSE d \in TraditionalDraws :
         overall_quality(simulate_traditional(d)) = SetMin(TraditionalQualities),
     CHOOSE d \in TraditionalDraws :
         overall_quality(simulate_traditional(d)) = SetMax(TraditionalQualities)}

StructuredSamples ==
    {Lowest(StructuredDraws), Highest(StructuredDraws),
     CHOOSE d \in StructuredDraws :
         overall_quality(simulate_structured(d)) = SetMin(StructuredQualities),
     CHOOSE d \in StructuredDraws :
         overall_quality(simulate_structured(d)) = SetMax(StructuredQualities)}

MetasprintSamples ==
    {Lowest(MetasprintDraws), Highest(MetasprintDraws),
     CHOOSE d \in MetasprintDraws :
         overall_quality(simulate_metasprint(d)) = SetMin(MetasprintQualities),
     CHOOSE d \in MetasprintDraws :
         overall_quality(simulate_metasprint(d)) = SetMax(MetasprintQualities)}

(***************************************************************************)
(* numpy's mean, std and percentile on a non-empty sequence of fixed-point *)
(* numbers.                                                                *)
(***************************************************************************)
RECURSIVE SeqSum(_)
SeqSum(xs) == IF xs = <<>> THEN 0 ELSE Head(xs) + SeqSum(Tail(xs))

RECURSIVE Insert(_, _)
Insert(x, s) ==
    IF s = <<>> THEN <<x>>
    ELSE IF x <= Head(s) THEN <<x>> \o s
    ELSE <<Head(s)>> \o Insert(x, Tail(s))

RECURSIVE Sort(_)
Sort(xs) == IF xs = <<>> THEN <<>> ELSE Insert(Head(xs), Sort(Tail(xs)))

\* Integer square root by Newton's iteration from above.
RECURSIVE NewtonSqrt(_, _)
NewtonSqrt(v, x) ==
    LET y == (x + v \div x) \div 2
    IN  IF y >= x THEN x ELSE NewtonSqrt(v, y)

ISqrt(v) == IF v = 0 THEN 0 ELSE NewtonSqrt(v, v)

\* np.mean
mean(xs) == SeqSum(xs) \div Len(xs)

\* np.std taken about zero instead of about the mean.
std_about_zero(xs) ==
    LET sq == [k \in 1..Len(xs) |-> (xs[k] \div 10000) * (xs[k] \div 10000)]
    IN  ISqrt(SeqSum(sq) \div Len(xs)) * 10000

\* np.std: sqrt(mean(abs(x - mean) ** 2)), the population standard deviation.
\* Deviations are carried to three decimals of a point.
std(xs) ==
    LET mu == mean(xs)
        dev(x) == (IF x >= mu THEN x - mu ELSE mu - x) \div 1000
        sq == [k \in 1..Len(xs) |-> dev(xs[k]) * dev(xs[k])]
    IN  ISqrt(SeqSum(sq) \div Len(xs)) * 1000

\* np.percentile(xs, q) with linear interpolation; q10 is q in tenths of a
\* percent, so the virtual index (n - 1) * q / 100 is pos / 1000.
percentile(xs, q10) ==
    LET s == Sort(xs)
        n == Len(xs)
        pos == (n - 1) * q10
        lo == pos \div 1000 + 1
        hi == Min(lo + 1, n)
        frac == pos % 1000
        gap == s[hi] - s[lo]
    IN  s[lo] + (gap \div 1000) * frac + ((gap % 1000) * frac) \div 1000

\* The body of analyze_results' loop for one method's list.
Summarize(metrics_list) ==
    LET n == Len(metrics_list)
        quality_scores == [k \in 1..n |-> overall_quality(metrics_list[k])]
        error_rates == [k \in 1..n |-> metrics_list[k].error_rate * 100]
        times == [k \in 1..n |-> metrics_list[k].time_days * ONE]
        reproducibility == [k \in 1..n |-> metrics_list[k].reproducibility * 100]
        graded == Cardinality({k \in 1..n : metrics_list[k].grade_completed})
    IN  [quality_mean |-> mean(quality_scores),
         quality_std |-> std(quality_scores),
         quality_95ci |-> <<percentile(quality_scores, 25),
                            percentile(quality_scores, 975)>>,
         error_rate_mean |-> mean(error_rates),
         error_rate_std |-> std(error_rates),
         time_mean |-> mean(times),
         time_std |-> std(times),
         reproducibility_mean |-> mean(reproducibility),
         grade_completion |-> (graded * 100 * ONE) \div n]

\* floor(100 * num / den) for den > 0, by long division.
Percent(num, den) ==
    LET q0 == num \div den
        r0 == num % den
        q1 == (10 * r0) \div den
        r1 == (10 * r0) % den
    IN  100 * q0 + 10 * q1 + (10 * r1) \div den

\* (num / den) * 100 on numpy float64 scalars: a zero divisor is no error,
\* the quotient is inf, -inf or nan.
RelativeDelta(num, den) ==
    IF den /= 0 THEN [kind |-> "finite", value |-> Percent(num, den)]
    ELSE IF num > 0 THEN [kind |-> "inf", value |-> 0]
    ELSE IF num < 0 THEN [kind |-> "-inf", value |-> 0]
    ELSE [kind |-> "nan", value |-> 0]

(***************************************************************************)
(* State.                                                                  *)
(***************************************************************************)
VARIABLES
    pc,            \* where the program stands
    n_iterations,  \* run_simulation's argument
    i,             \* iterations of run_simulation's loop completed
    results,       \* Method -> sequence of Metrics Records
    calls,         \* Method -> number of calls of its generator
    method,        \* the generator called last
    rng,           \* the draws the random source gave that call
    metrics,       \* the Metrics Record that call returned
    summary,       \* Method -> Summary, once analyze_results has returned
    findings,      \* the four relative deltas of print_comparison_table
    raised         \* the exception that ended the program, or "none"

vars == <<pc, n_iterations, i, results, calls, method, rng, metrics, summary,
          findings, raised>>

Nothing == [x \in {} |-> 0]

NoRecords == [m \in Method |-> <<>>]

NoCalls == [m \in Method |-> 0]

(***************************************************************************)
(* One call of one generator (SpecGen): every combination of draws.        *)
(***************************************************************************)
InitGen ==
    /\ pc = "call"
    /\ n_iterations = 0
    /\ i = 0
    /\ results = NoRecords
    /\ calls = NoCalls
    /\ method = "none"
    /\ rng = Nothing
    /\ metrics = QualityMetrics
    /\ summary = Nothing
    /\ findings = Nothing
    /\ raised = "none"

Returns(m, d, rec) ==
    /\ method' = m
    /\ rng' = d
    /\ metrics' = rec
    /\ calls' = [calls EXCEPT ![m] = @ + 1]

CallTraditional ==
    /\ pc = "call"
    /\ \E d \in TraditionalDraws : Returns(TRADITIONAL, d, simulate_traditional(d))
    /\ pc' = "returned"
    /\ UNCHANGED <<n_iterations, i, results, summary, findings, raised>>

CallStructured ==
    /\ pc = "call"
    /\ \E d \in StructuredDraws : Returns(STRUCTURED, d, simulate_structured(d))
    /\ pc' = "returned"
    /\ UNCHANGED <<n_iterations, i, results, summary, findings, raised>>

CallMetasprint ==
    /\ pc = "call"
    /\ \E d \in MetasprintDraws : Returns(METASPRINT, d, simulate_metasprint(d))
    /\ pc' = "returned"
    /\ UNCHANGED <<n_iterations, i, results, summary, findings, raised>>

NextGen == CallTraditional \/ CallStructured \/ CallMetasprint

SpecGen == InitGen /\ [][NextGen]_vars

(***************************************************************************)
(* main(): run_simulation, analyze_results, print_comparison_table (Spec). *)
(***************************************************************************)
Init ==
    /\ pc = "run_simulation"
    /\ n_iterations \in -1..MaxIter
    /\ i = 0
    /\ results = Nothing
    /\ calls = NoCalls
    /\ method = "none"
    /\ rng = Nothing
    /\ metrics = QualityMetrics
    /\ summary = Nothing
    /\ findings = Nothing
    /\ raised = "none"

\* run_simulation, lines 192-196: the mapping with three empty lists.
RunSimulation ==
    /\ pc = "run_simulation"
    /\ results' = NoRecords
    /\ pc' = "for"
    /\ UNCHANGED <<n_iterations, i, calls, method, rng, metrics, summary,
                   findings, raised>>

\* for _ in range(n_iterations): the next iteration, or return results.
ForRange ==
    /\ pc = "for"
    /\ pc' = IF i < n_iterations THEN "append_traditional" ELSE "analyze_results"
    /\ UNCHANGED <<n_iterations, i, results, calls, method, rng, metrics,
                   summary, findings, raised>>

AppendTraditional ==
    /\ pc = "append_traditional"
    /\ \E d \in TraditionalSamples :
          /\ Returns(TRADITIONAL, d, simulate_traditional(d))
          /\ results' = [results EXCEPT
                            ![TRADITIONAL] = Append(@, simulate_traditional(d))]
    /\ pc' = "append_structured"
    /\ UNCHANGED <<n_iterations, i, summary, findings, raised>>

\* The structured record appended to the traditional list.
AppendStructuredToTraditional ==
    /\ pc = "append_structured"
    /\ \E d \in StructuredSamples :
          /\ Returns(STRUCTURED, d, simulate_structured(d))
          /\ results' = [results EXCEPT
                            ![TRADITIONAL] = Append(@, simulate_structured(d))]
    /\ pc' = "append_metasprint"
    /\ UNCHANGED <<n_iterations, i, summary, findings, raised>>

AppendStructured ==
    /\ pc = "append_structured"
    /\ \E d \in StructuredSamples :
          /\ Returns(STRUCTURED, d, simulate_structured(d))
          /\ results' = [results EXCEPT
                            ![STRUCTURED] = Append(@, simulate_structured(d))]
    /\ pc' = "append_metasprint"
    /\ UNCHANGED <<n_iterations, i, summary, findings, raised>>

\* The gated list filled by the structured generator.
AppendMetasprintFromStructured ==
    /\ pc = "append_metasprint"
    /\ \E d \in StructuredSamples :
          /\ Returns(METASPRINT, d, simulate_structured(d))
          /\ results' = [results EXCEPT
                            ![METASPRINT] = Append(@, simulate_structured(d))]
    /\ i' = i + 1
    /\ pc' = "for"
    /\ UNCHANGED <<n_iterations, summary, findings, raised>>

AppendMetasprint ==
    /\ pc = "append_metasprint"
    /\ \E d \in MetasprintSamples :
          /\ Returns(METASPRINT, d, simulate_metasprint(d))
          /\ results' = [results EXCEPT
                            ![METASPRINT] = Append(@, simulate_metasprint(d))]
    /\ i' = i + 1
    /\ pc' = "for"
    /\ UNCHANGED <<n_iterations, summary, findings, raised>>

\* analyze_results: len(metrics_list) divides grade_pct, so an empty list
\* raises ZeroDivisionError out of the function and no summary is returned.
AnalyzeResults ==
    /\ pc = "analyze_results"
    /\ IF \E m \in Method : results[m] = <<>>
       THEN /\ raised' = "ZeroDivisionError"
            /\ pc' = "failed"
            /\ UNCHANGED summary
       ELSE /\ summary' = [m \in Method |-> Summarize(results[m])]
            /\ pc' = "print_comparison_table"
            /\ UNCHANGED raised
    /\ UNCHANGED <<n_iterations, i, results, calls, method, rng, metrics, findings>>

\* print_comparison_table, lines 377-389: the four relative deltas.
PrintComparisonTable ==
    /\ pc = "print_comparison_table"
    /\ LET trad == summary[TRADITIONAL]
           sprint == summary[METASPRINT]
       IN  findings' =
             [quality_improvement |->
                  RelativeDelta(sprint.quality_mean - trad.quality_mean,
                                trad.quality_mean),
              error_reduction |->
                  RelativeDelta(trad.error_rate_mean - sprint.error_rate_mean,
                                trad.error_rate_mean),
              time_reduction |->
                  RelativeDelta(trad.time_mean - sprint.time_mean,
                                trad.time_mean),
              repro_improvement |->
                  RelativeDelta(sprint.reproducibility_mean - trad.reproducibility_mean,
                                trad.reproducibility_mean)]
    /\ pc' = "done"
    /\ UNCHANGED <<n_iterations, i, results, calls, method, rng, metrics,
                   summary, raised>>

Next ==
    \/ RunSimulation
    \/ ForRange
    \/ AppendTraditional
    \/ AppendStructured
    \/ AppendMetasprint
    \/ AnalyzeResults
    \/ PrintComparisonTable

Spec == Init /\ [][Next]_vars


(***************************************************************************)
(* analyze_results and print_comparison_table called on records the caller *)
(* built itself (SpecCaller): the dataclass defaults, a record whose       *)
(* error_rate is 1, and a generated record.                                *)
(***************************************************************************)
CallerRecords ==
    {QualityMetrics,
     [QualityMetrics EXCEPT !.error_rate = ONE],
     simulate_traditional(Lowest(TraditionalDraws)),
     simulate_metasprint(Lowest(MetasprintDraws))}

RECURSIVE SeqsUpTo(_, _)
SeqsUpTo(S, n) ==
    IF n = 0 THEN {<<>>}
    ELSE LET shorter == SeqsUpTo(S, n - 1)
         IN  shorter \cup {Append(s, x) : s \in shorter, x \in S}

InitCaller ==
    /\ pc = "analyze_results"
    /\ n_iterations = 0
    /\ i = 0
    /\ results \in [Method -> SeqsUpTo(CallerRecords, MaxIter)]
    /\ calls = NoCalls
    /\ method = "none"
    /\ rng = Nothing
    /\ metrics = QualityMetrics
    /\ summary = Nothing
    /\ findings = Nothing
    /\ raised = "none"

NextCaller == AnalyzeResults \/ PrintComparisonTable

SpecCaller == InitCaller /\ [][NextCaller]_vars


(***************************************************************************)
(* Properties.                                                             *)
(***************************************************************************)
Fraction(x) == 0 <= x /\ x <= ONE

Returned == pc \in {"analyze_results", "print_comparison_table", "done", "failed"}

Analyzed == pc \in {"print_comparison_table", "done"}

Qualities(ms) == {overall_quality(ms[k]) : k \in 1..Len(ms)}

\* C1: every Metrics Record a generator returns, whatever the draws, has
\* protocol_adherence, data_accuracy, reproducibility, audit_readiness and
\* error_rate in [0,1] and an overall_quality in [0,100].
C1_FieldsInRange ==
    pc = "returned" =>
        /\ Fraction(metrics.protocol_adherence)
        /\ Fraction(metrics.data_accuracy)
        /\ Fraction(metrics.reproducibility)
        /\ Fraction(metrics.audit_readiness)
        /\ Fraction(metrics.error_rate)
        /\ 0 <= overall_quality(metrics)
        /\ overall_quality(metrics) <= 100 * ONE

\* A gated record whose gates A and D both failed (both penalties applied)
\* and whose weighted score reaches the cap.
C1_Witness ==
    /\ pc = "returned"
    /\ method = METASPRINT
    /\ rng.dod_a >= 95000
    /\ rng.dod_d >= 88000
    /\ metrics.protocol_adherence = rng.protocol_adherence - 10000
    /\ metrics.reproducibility = rng.reproducibility - 10000
    /\ overall_quality(metrics) = 100 * ONE

\* C2 as claimed: analyze_results on a mapping with an empty sequence signals
\* an invalid-input error and returns no Summary.
C2_EmptySignalsInvalidInput ==
    (pc /= "analyze_results" /\ \E m \in Method : results[m] = <<>>) =>
        (raised = "InvalidInput" /\ summary = Nothing)

\* C3 as claimed: with a baseline mean of zero (quality, error rate, time or
\* reproducibility) the comparator signals degenerate statistics and yields
\* no infinite or NaN delta.
C3_ZeroBaselineSignalsDegenerate ==
    (pc = "done" /\ (\/ summary[TRADITIONAL].quality_mean = 0
                     \/ summary[TRADITIONAL].error_rate_mean = 0
                     \/ summary[TRADITIONAL].time_mean = 0
                     \/ summary[TRADITIONAL].reproducibility_mean = 0)) =>
        /\ raised = "DegenerateStatistics"
        /\ \A k \in DOMAIN findings : findings[k].kind = "finite"

\* C4 as claimed: run_simulation with a non-positive iteration count signals
\* an invalid-input error and returns no mapping of empty sequences.
C4_NonPositiveSignalsInvalidInput ==
    (n_iterations <= 0 /\ Returned) =>
        (raised = "InvalidInput" /\ results = Nothing)

\* C5: every record of the gated method has grade_completed and
\* deviations_logged true, whatever was drawn, in a run of any length, and
\* the gated Summary's grade_completion is exactly 100.
C5_GatedAlwaysGraded ==
    /\ results /= Nothing =>
          \A k \in 1..Len(results[METASPRINT]) :
              /\ results[METASPRINT][k].grade_completed
              /\ results[METASPRINT][k].deviations_logged
    /\ Analyzed => summary[METASPRINT].grade_completion = 100 * ONE

\* A finished run of two iterations whose gated records differ in their gate
\* and extension outcomes.
C5_Witness ==
    /\ pc = "done"
    /\ Len(results[METASPRINT]) = 2
    /\ results[METASPRINT][1].time_days = 45
    /\ results[METASPRINT][1].protocol_adherence = 85000
    /\ results[METASPRINT][2].time_days = 40
    /\ results[METASPRINT][2].protocol_adherence = 88000
    /\ summary[METASPRINT].grade_completion = 100 * ONE

\* C6: a gated record's time_days is 45 exactly when the extension draw
\* triggers and 40 otherwise, whatever the gates and audits drew.
C6_GatedTimeline ==
    (pc = "returned" /\ method = METASPRINT) =>
        /\ metrics.time_days \in {40, 45}
        /\ metrics.time_days = 45 <=> rng.condgo < 15000

\* An extended gated record with every gate failed.
C6_Witness ==
    /\ pc = "returned"
    /\ method = METASPRINT
    /\ rng.condgo < 15000
    /\ rng.dod_a >= 95000 /\ rng.dod_b >= 92000
    /\ rng.dod_c >= 90000 /\ rng.dod_d >= 88000
    /\ metrics.time_days = 45

\* C7: with one iteration each method has one record, and its Summary has
\* quality_mean equal to that record's overall_quality, quality_std,
\* error_rate_std and time_std equal to 0, and both ends of the 95% interval
\* equal to that overall_quality.
C7_SingleTrialCollapses ==
    (n_iterations = 1 /\ Analyzed) =>
        \A m \in Method :
            /\ Len(results[m]) = 1
            /\ summary[m].quality_mean = overall_quality(results[m][1])
            /\ summary[m].quality_std = 0
            /\ summary[m].error_rate_std = 0
            /\ summary[m].time_std = 0
            /\ summary[m].quality_95ci[1] = overall_quality(results[m][1])
            /\ summary[m].quality_95ci[2] = overall_quality(results[m][1])

\* A finished run of one iteration with a non-zero quality, error rate and time.
C7_Witness ==
    /\ pc = "done"
    /\ n_iterations = 1
    /\ summary[TRADITIONAL].quality_mean > 0
    /\ summary[TRADITIONAL].error_rate_mean > 0
    /\ summary[TRADITIONAL].time_mean = 365 * ONE
    /\ summary[TRADITIONAL].time_std = 0

\* C8: for every iteration count >= 1 and all draws, every gated record's
\* overall_quality is above every baseline record's, and the gated
\* quality_mean is strictly greater than the baseline quality_mean.
C8_GatedAboveBaseline ==
    (n_iterations >= 1 /\ Analyzed) =>
        /\ \A g \in Qualities(results[METASPRINT]) :
               \A t \in Qualities(results[TRADITIONAL]) : g > t
        /\ summary[METASPRINT].quality_mean > summary[TRADITIONAL].quality_mean

\* A finished run holding the lowest-quality gated record and the
\* highest-quality baseline record of the whole draw space.
C8_Witness ==
    /\ pc = "done"
    /\ SetMin(MetasprintQualities) \in Qualities(results[METASPRINT])
    /\ SetMax(TraditionalQualities) \in Qualities(results[TRADITIONAL])
    /\ Qualities(results[METASPRINT]) = {SetMin(MetasprintQualities)}
    /\ Qualities(results[TRADITIONAL]) = {SetMax(TraditionalQualities)}

\* The gated draws that differ from d in the four gate draws only.
SameButGates(d) ==
    {[d EXCEPT !.dod_a = a, !.dod_b = b, !.dod_c = c, !.dod_d = e] :
         a \in Random, b \in Random, c \in Random, e \in Random}

\* C9: the gated error_rate is max(initial * (1 - catch1) * (1 - catch2), 0.01):
\* at least 0.01, at most the initial error rate, and the same whatever the
\* four gates drew.
C9_AuditedErrorRate ==
    (pc = "returned" /\ method = METASPRINT) =>
        /\ metrics.error_rate =
               Max(((((rng.initial_errors * (ONE - rng.audit1_errors_caught)) \div ONE)
                     * (ONE - rng.audit2_errors_caught)) \div ONE), 1000)
        /\ metrics.error_rate >= 1000
        /\ metrics.error_rate <= rng.initial_errors
        /\ \A e \in SameButGates(rng) :
               simulate_metasprint(e).error_rate = metrics.error_rate

\* A gated record above the floor, with a gate failed.
C9_Witness ==
    /\ pc = "returned"
    /\ method = METASPRINT
    /\ rng.dod_c >= 90000
    /\ metrics.error_rate = 3000
    /\ rng.initial_errors = 25000

====
